---------------------------- MODULE Spec2Model ----------------------------
(***************************************************************************)
(* rig-core/src/providers/openai/embedding.rs                              *)
(*                                                                         *)
(* A model of EmbeddingModel::embed_texts (the request / backoff loop) and *)
(* of parse_ratelimit_duration (the rate-limit header parser).             *)
(*                                                                         *)
(* Strings the parser scans are sequences of one-character strings.        *)
(* Durations are records of seconds and nanoseconds.  Every record lists   *)
(* its fields in the order in which the names first occur in this file,    *)
(* which is TLC's normal form of the record: no worker then reorders a     *)
(* record that another worker reads.                                       *)
(***************************************************************************)
EXTENDS Integers, Sequences, FiniteSets, TLC

\* ------------------------------------------------------------------ bounds
\* Longest document list passed to one call.
MaxDocs == 2
\* Most POSTs the environment lets one call issue: the provider stops
\* answering 429-with-hint once this many requests were sent.
MaxPosts == 3
\* Most tokens a header value is written from.
MaxTokens == 2

\* --------------------------------------------------------------- constants
TEXT_EMBEDDING_3_SMALL == "text-embedding-3-small"

Docs == {"a", "b"}
Vecs == {"v1", "v2"}
BodyTexts == {"body"}
OtherStatuses == {201, 500}

\* ----------------------------------------------------------------- helpers
SeqsUpTo(S, n) == UNION {[1..k -> S] : k \in 0..n}

\* Option<T>
NoneOpt == [kind |-> "None"]
Some(x) == [kind |-> "Some", d |-> x]
\* what a panic inside the parser leaves in place of a value
Panicked == [kind |-> "Panic"]

\* Option<&HeaderValue> as returned by HeaderMap::get
Absent == [present |-> FALSE, value |-> <<>>]
Header(v) == [present |-> TRUE, value |-> v]

\* ------------------------------------------------------------------ parser
Digits == {"0", "1", "2", "3", "4", "5", "6", "7", "8", "9"}
DigitString == <<"0", "1", "2", "3", "4", "5", "6", "7", "8", "9">>
Letters == {"a", "b", "c", "h", "m", "q", "s", "x", "y", "z"}
Whitespace == {" "}
\* the characters HeaderValue::to_str accepts (visible ASCII, space, tab)
VisibleAscii == Digits \cup Letters \cup Whitespace \cup {".", "-", ":"}

DigitVal(c) == (CHOOSE i \in 1..10 : DigitString[i] = c) - 1

\* char::is_ascii_digit
is_ascii_digit(c) == c \in Digits
\* char::is_alphabetic (the string is ASCII once to_str succeeded)
is_alphabetic(c) == c \in Letters
\* char::is_whitespace
is_whitespace(c) == c \in Whitespace

\* String::contains(char)
Contains(str, c) == \E i \in 1..Len(str) : str[i] = c

\* HeaderValue::to_str: Err when a byte is not visible ASCII
to_str(header_value) ==
    IF \A i \in 1..Len(header_value) : header_value[i] \in VisibleAscii
    THEN [ok |-> TRUE, s |-> header_value]
    ELSE [ok |-> FALSE, s |-> <<>>]

RECURSIVE StripZeros(_)
StripZeros(ds) ==
    IF ds # <<>> /\ Head(ds) = "0" THEN StripZeros(Tail(ds)) ELSE ds

RECURSIVE DigitsValue(_)
DigitsValue(ds) ==
    IF ds = <<>> THEN 0
    ELSE 10 * DigitsValue(SubSeq(ds, 1, Len(ds) - 1)) + DigitVal(ds[Len(ds)])

RECURSIVE Pow10(_)
Pow10(k) == IF k = 0 THEN 1 ELSE 10 * Pow10(k - 1)

\* decimal comparison of two digit strings without leading zeros
RECURSIVE LexGE(_, _)
LexGE(a, b) ==
    IF a = <<>> THEN TRUE
    ELSE IF DigitVal(Head(a)) # DigitVal(Head(b))
         THEN DigitVal(Head(a)) > DigitVal(Head(b))
         ELSE LexGE(Tail(a), Tail(b))
DecimalGE(a, b) == Len(a) > Len(b) \/ (Len(a) = Len(b) /\ LexGE(a, b))

\* str::parse::<f64> on the text the scanner can collect (digits and '.'):
\* Ok for digits with at most one '.', and at least one digit; the value is
\* num / den.  int is the integer part without leading zeros.
ParseF64(current_value) ==
    LET dots == {i \in 1..Len(current_value) : current_value[i] = "."}
        n    == Len(current_value)
    IN  IF n = 0 \/ Cardinality(dots) > 1 \/ n = Cardinality(dots)
        THEN [ok |-> FALSE, frac |-> <<>>, int |-> <<>>]
        ELSE IF dots = {}
             THEN [ok |-> TRUE, frac |-> <<>>, int |-> StripZeros(current_value)]
             ELSE LET p == CHOOSE i \in dots : TRUE
                  IN  [ok |-> TRUE,
                       frac |-> SubSeq(current_value, p + 1, n),
                       int |-> StripZeros(SubSeq(current_value, 1, p - 1))]

\* milliseconds in one unit
UnitMillis_MinutesAsSeconds(unit) ==
    CASE unit = "h"  -> 3600000
      [] unit = "m"  -> 1000
      [] unit = "s"  -> 1000
      [] unit = "ms" -> 1
UnitMillis(unit) ==
    CASE unit = "h"  -> 3600000
      [] unit = "m"  -> 60000
      [] unit = "s"  -> 1000
      [] unit = "ms" -> 1

\* the smallest integer magnitude whose value in seconds reaches 2^64, the
\* first number of seconds Duration cannot hold (from_secs_f64 panics)
OverflowFrom(unit) ==
    CASE unit = "s"  -> <<"1", "8", "4", "4", "6", "7", "4", "4", "0", "7",
                          "3", "7", "0", "9", "5", "5", "1", "6", "1", "6">>
      [] unit = "m"  -> <<"3", "0", "7", "4", "4", "5", "7", "3", "4", "5",
                          "6", "1", "8", "2", "5", "8", "6", "1">>
      [] unit = "h"  -> <<"5", "1", "2", "4", "0", "9", "5", "5", "7", "6",
                          "0", "3", "0", "4", "3", "2">>
      [] unit = "ms" -> <<"1", "8", "4", "4", "6", "7", "4", "4", "0", "7",
                          "3", "7", "0", "9", "5", "5", "1", "6", "1", "6",
                          "0", "0", "0">>

\* Duration: whole seconds and the nanoseconds below one second
Dur(secs, nanos) == [secs |-> secs, nanos |-> nanos]
\* Duration::ZERO
ZERO == Dur(0, 0)
\* a duration of n milliseconds
Millis(n) == Dur(n \div 1000, (n % 1000) * 1000000)
\* Duration + Duration
DurAdd(x, y) ==
    Dur(x.secs + y.secs + (x.nanos + y.nanos) \div 1000000000,
        (x.nanos + y.nanos) % 1000000000)

\* Duration::from_secs_f64(val * multiplier): a panic when the seconds do not
\* fit the Duration, the duration otherwise.  The fraction of val counts to
\* its third decimal.
from_secs_f64(val, unit) ==
    IF DecimalGE(val.int, OverflowFrom(unit))
    THEN Panicked
    ELSE LET whole == DigitsValue(val.int)
             thousandths ==
                 (DigitsValue(val.frac) * 1000) \div Pow10(Len(val.frac))
         IN  IF unit = "ms"
             THEN Some(DurAdd(Millis(whole), Dur(0, thousandths * 1000)))
             ELSE Some(DurAdd(Dur(whole * (UnitMillis(unit) \div 1000), 0),
                              Millis(thousandths * (UnitMillis(unit) \div 1000))))

\* c == 'm' && next_char == 's': the two-character unit ms
IsMs_Never(s, i) == FALSE
IsMs(s, i) == s[i] = "m" /\ i < Len(s) /\ s[i + 1] = "s"

\* current_value.clear() on an unknown unit
ClearedValue_Kept(current_value) == current_value
ClearedValue(current_value) == <<>>

\* if total_duration == Duration::ZERO { None } else { Some(total_duration) }
Finish_NoZeroCheck(total_duration) == Some(total_duration)
Finish(total_duration) ==
    IF total_duration = ZERO THEN NoneOpt ELSE Some(total_duration)

\* the code after the loop: a trailing number without unit counts as seconds
Trailing_Dropped(total_duration, current_value) == Finish(total_duration)
Trailing(total_duration, current_value) ==
    IF current_value # <<>>
    THEN LET val == ParseF64(current_value)
         IN  IF val.ok
             THEN LET d == from_secs_f64(val, "s")
                  IN  IF d.kind = "Panic" THEN Panicked
                      ELSE Finish(DurAdd(total_duration, d.d))
             ELSE NoneOpt
    ELSE Finish(total_duration)

\* the while loop of parse_ratelimit_duration from position i on, and the
\* code after it once the string is exhausted
RECURSIVE Scan(_, _, _, _)
Scan(s, i, total_duration, current_value) ==
    IF i > Len(s)
    THEN Trailing(total_duration, current_value)
    ELSE LET c == s[i]
         IN  IF is_ascii_digit(c) \/ (c = "." /\ Contains(current_value, "."))
             THEN Scan(s, i + 1, total_duration, Append(current_value, c))
             ELSE IF is_alphabetic(c)
             THEN LET ms   == IsMs(s, i)
                      next == IF ms THEN i + 2 ELSE i + 1
                  IN  IF ~ms /\ c \notin {"h", "m", "s"}
                      THEN \* unknown unit, skip value
                           Scan(s, next, total_duration, ClearedValue(current_value))
                      ELSE LET unit == IF ms THEN "ms" ELSE c
                               val  == ParseF64(current_value)
                           IN  IF val.ok
                               THEN LET d == from_secs_f64(val, unit)
                                    IN  IF d.kind = "Panic" THEN Panicked
                                        ELSE Scan(s, next,
                                                  DurAdd(total_duration, d.d), <<>>)
                               ELSE IF current_value # <<>>
                                    THEN NoneOpt
                                    ELSE Scan(s, next, total_duration, current_value)
             ELSE \* other characters are ignored
                  Scan(s, i + 1, total_duration, current_value)

parse_ratelimit_duration(header_value) ==
    LET str == to_str(header_value)
    IN  IF str.ok THEN Scan(str.s, 1, ZERO, <<>>) ELSE NoneOpt


\* ------------------------------------------------------- values of the call
\* Result<Vec<Embedding>, EmbeddingError>; Pending while the call runs
Pending == [kind |-> "Pending"]
Ok(value) == [kind |-> "Ok", value |-> value]
Err(error, message) == [kind |-> "Err", error |-> error, message |-> message]
Aborted == [kind |-> "Panic"]

\* error messages: the format text, and the status and body it interpolates
Msg(fmt, status, body) == [fmt |-> fmt, status |-> status, body |-> body]
NoMsg == Msg("", 0, "")

\* what one pass of the loop body decides
Return(result) == [next |-> "return", result |-> result, duration |-> ZERO]
Abort == [next |-> "panic", result |-> Aborted, duration |-> ZERO]

\* sleep(duration).await; continue
Backoff_NoSleep(duration) ==
    [next |-> "continue", result |-> Pending, duration |-> duration]
Backoff(duration) ==
    [next |-> "sleep", result |-> Pending, duration |-> duration]

\* response bodies
Undecodable == [kind |-> "Undecodable", message |-> "", data |-> <<>>]
ApiErr(message) == [kind |-> "Err", message |-> message, data |-> <<>>]
ApiOk(data) == [kind |-> "Ok", message |-> "", data |-> data]
TextOk(t) == [ok |-> TRUE, text |-> t]
TextFails == [ok |-> FALSE, text |-> ""]

Response(status, reset_requests, reset_tokens, json, text) ==
    [status |-> status, text |-> text, reset_requests |-> reset_requests,
     reset_tokens |-> reset_tokens, json |-> json]
NoResponse == Response(0, Absent, Absent, Undecodable, TextFails)

\* ------------------------------------------------------------- embed_texts
\* the zip of the returned records with the documents, by position
ZipEmbeddings_Reversed(data, docs) ==
    [i \in 1..Len(data) |->
        [document |-> docs[Len(docs) + 1 - i], vec |-> data[i].embedding]]
ZipEmbeddings(data, docs) ==
    [i \in 1..(IF Len(data) < Len(docs) THEN Len(data) ELSE Len(docs)) |->
        [document |-> docs[i], vec |-> data[i].embedding]]

\* response_data.data.len() != documents_vec.len()
LengthMismatch_OnlyFewer(data, docs) == Len(data) < Len(docs)
LengthMismatch(data, docs) == Len(data) # Len(docs)

\* StatusCode::OK arm
OnOk(resp, docs) ==
    CASE resp.json.kind = "Undecodable" -> Return(Err("HttpError", NoMsg))
      [] resp.json.kind = "Err" ->
            Return(Err("ProviderError", Msg(resp.json.message, 0, "")))
      [] resp.json.kind = "Ok" ->
            IF LengthMismatch(resp.json.data, docs)
            THEN Return(Err("ResponseError",
                     Msg("Response data length does not match input length", 0, "")))
            ELSE Return(Ok(ZipEmbeddings(resp.json.data, docs)))

\* headers().get(requests).or_else(|| headers().get(tokens))
\*     .and_then(parse_ratelimit_duration)
retry_after_TokensFirst(resp) ==
    LET chosen == IF resp.reset_tokens.present
                  THEN resp.reset_tokens ELSE resp.reset_requests
    IN  IF chosen.present THEN parse_ratelimit_duration(chosen.value) ELSE NoneOpt
retry_after(resp) ==
    LET chosen == IF resp.reset_requests.present
                  THEN resp.reset_requests ELSE resp.reset_tokens
    IN  IF chosen.present THEN parse_ratelimit_duration(chosen.value) ELSE NoneOpt

RateLimitMsg(text) ==
    Msg("Rate limit hit, but no valid retry duration found in headers. Response: {}",
        0, text)

\* StatusCode::TOO_MANY_REQUESTS arm
OnTooManyRequests_NeverRetry(resp) ==
    IF resp.text.ok
    THEN Return(Err("ProviderError", RateLimitMsg(resp.text.text)))
    ELSE Return(Err("HttpError", NoMsg))
OnTooManyRequests_GuessDelay(resp) ==
    LET ra == retry_after(resp)
    IN  IF ra.kind = "Some" THEN Backoff(ra.d) ELSE Backoff(Millis(1000))
OnTooManyRequests(resp) ==
    LET ra == retry_after(resp)
    IN  CASE ra.kind = "Panic" -> Abort
          [] ra.kind = "Some"  -> Backoff(ra.d)
          [] ra.kind = "None"  ->
                IF resp.text.ok
                THEN Return(Err("ProviderError", RateLimitMsg(resp.text.text)))
                ELSE Return(Err("HttpError", NoMsg))

StatusMsg(status, text) ==
    Msg("Request failed with status {}: {}", status, text)

\* status => arm
OnOtherStatus_RetryServerError(resp) ==
    IF resp.status >= 500 THEN Backoff_NoSleep(ZERO)
    ELSE IF resp.text.ok
         THEN Return(Err("ProviderError", StatusMsg(resp.status, resp.text.text)))
         ELSE Return(Err("HttpError", NoMsg))
OnOtherStatus_ReadErrorSwallowed(resp) ==
    Return(Err("ProviderError",
               StatusMsg(resp.status, IF resp.text.ok THEN resp.text.text ELSE "")))
OnOtherStatus_NoStatus(resp) ==
    IF resp.text.ok
    THEN Return(Err("ProviderError", StatusMsg(0, resp.text.text)))
    ELSE Return(Err("HttpError", NoMsg))
OnOtherStatus(resp) ==
    IF resp.text.ok
    THEN Return(Err("ProviderError", StatusMsg(resp.status, resp.text.text)))
    ELSE Return(Err("HttpError", NoMsg))

\* match response.status()
HandleResponse(resp, docs) ==
    CASE resp.status = 200 -> OnOk(resp, docs)
      [] resp.status = 429 -> OnTooManyRequests(resp)
      [] OTHER             -> OnOtherStatus(resp)

\* ------------------------------------------------------------ environment
HeaderValues ==
    { <<"1", "s">>, <<"1", "0", "m", "s">>, <<"0", "s">>, <<"a", "b", "c">>,
      <<>>, <<"0x80">>,
      <<"9", "9", "9", "9", "9", "9", "9", "9", "9", "9",
        "9", "9", "9", "9", "9", "9", "9", "9", "9", "9", "s">> }
Headers == {Absent} \cup {Header(v) : v \in HeaderValues}
Texts == {TextFails} \cup {TextOk(t) : t \in BodyTexts}
EmbeddingData == [embedding : Vecs, index : 0..(MaxDocs - 1)]
Jsons == {Undecodable, ApiErr("invalid model")}
             \cup {ApiOk(data) : data \in SeqsUpTo(EmbeddingData, MaxDocs + 1)}

\* -------------------------------------------------------------- the call
VARIABLES documents, documents_vec, request_body, pc, response,
          sleep_duration, result, trace

\* one evaluation of parse_ratelimit_duration on its own: the header value as
\* the tokens it is written from, the value as the string passed, the
\* position of the evaluation and what it gave
VARIABLES tokens, header, ppc, parsed

callVars == <<documents, documents_vec, request_body, pc, response,
              sleep_duration, result, trace>>
parserVars == <<tokens, header, ppc, parsed>>
vars == <<callVars, parserVars>>

PostEv_InputMovedOut(body) ==
    [body |-> [input |-> <<>>, model |-> body.model], ev |-> "post"]
PostEv(body) == [body |-> body, ev |-> "post"]
FailEv == [ev |-> "fail"]
\* a response, with the retry hint its headers carry when it is a 429
RespEv(resp) ==
    [status |-> resp.status, ev |-> "resp",
     hint |-> IF resp.status = 429 THEN retry_after(resp) ELSE NoneOpt]
SleepEv(d) == [duration |-> d, ev |-> "sleep"]

NumEv(kind) == Cardinality({i \in DOMAIN trace : trace[i].ev = kind})

Init ==
    /\ documents \in SeqsUpTo(Docs, MaxDocs)
    /\ documents_vec = documents
    /\ request_body = [input |-> documents_vec, model |-> TEXT_EMBEDDING_3_SMALL]
    /\ pc = "send"
    /\ response = NoResponse
    /\ sleep_duration = ZERO
    /\ result = Pending
    /\ trace = <<>>
    /\ tokens = <<>>
    /\ header = <<>>
    /\ ppc = "idle"
    /\ parsed = NoneOpt

\* .post("/embeddings").json(&request_body).send()
Post ==
    /\ pc = "send"
    /\ pc' = "await"
    /\ trace' = Append(trace, PostEv(request_body))
    /\ response' = NoResponse
    /\ UNCHANGED <<documents, documents_vec, request_body, sleep_duration, result>>
    /\ UNCHANGED parserVars

\* .send().await? with a transport-level failure
SendFails ==
    /\ pc = "await"
    /\ pc' = "done"
    /\ result' = Err("HttpError", NoMsg)
    /\ trace' = Append(trace, FailEv)
    /\ UNCHANGED <<documents, documents_vec, request_body, response, sleep_duration>>
    /\ UNCHANGED parserVars

\* a response arrives and the match on its status runs
Receive(resp) ==
    LET out == HandleResponse(resp, documents_vec)
    IN  /\ pc = "await"
        /\ out.next \in {"sleep", "continue"} => NumEv("post") < MaxPosts
        /\ response' = resp
        /\ trace' = Append(trace, RespEv(resp))
        /\ result' = out.result
        /\ sleep_duration' = out.duration
        /\ pc' = CASE out.next = "return"   -> "done"
                   [] out.next = "panic"    -> "done"
                   [] out.next = "sleep"    -> "sleep"
                   [] out.next = "continue" -> "send"
        /\ UNCHANGED <<documents, documents_vec, request_body>>
        /\ UNCHANGED parserVars

ReceiveOk ==
    \E json \in Jsons : Receive(Response(200, Absent, Absent, json, TextFails))

ReceiveTooManyRequests ==
    \E rq \in Headers, tk \in Headers, text \in Texts :
        Receive(Response(429, rq, tk, Undecodable, text))

ReceiveOtherStatus ==
    \E status \in OtherStatuses, text \in Texts :
        Receive(Response(status, Absent, Absent, Undecodable, text))

\* sleep(duration).await completes; continue
SleepCompletes ==
    /\ pc = "sleep"
    /\ pc' = "send"
    /\ trace' = Append(trace, SleepEv(sleep_duration))
    /\ UNCHANGED <<documents, documents_vec, request_body, response,
                   sleep_duration, result>>
    /\ UNCHANGED parserVars

Next ==
    \/ Post
    \/ SendFails
    \/ ReceiveOk
    \/ ReceiveTooManyRequests
    \/ ReceiveOtherStatus
    \/ SleepCompletes

Spec == Init /\ [][Next]_vars

\* ------------------------------------------- the parser on its own inputs
\* a header value is written as tokens: a number text followed by a unit text
Token(unit, num) == [unit |-> unit, num |-> num]
Numbers ==
    { <<>>, <<"0">>, <<"0", "0">>, <<"3">>, <<"1", "0">>,
      <<"1", ".", "5">>, <<".">> }
Units == { <<"h">>, <<"m">>, <<"s">>, <<"m", "s">>, <<"q">>, <<>>, <<" ">> }
Tokens == {Token(u, n) : u \in Units, n \in Numbers}

\* header values of the documentation and of the provider, and values beyond
\* the longest token sequence drawn
Examples ==
    { <<Token(<<"h">>, <<"1">>), Token(<<"m">>, <<"2">>), Token(<<"s">>, <<"3">>)>>,
      <<Token(<<"h">>, <<"3">>), Token(<<"q">>, <<"5">>),
        Token(<<"s">>, <<"1", "0">>)>>,
      <<Token(<<"m">>, <<"6">>), Token(<<"s">>, <<"1", "0">>)>>,
      <<Token(<<"m", "s">>, <<"5", "0", "0">>)>>,
      <<Token(<<"m">>, <<"0", ".", "5">>)>>,
      <<Token(<<"m">>, <<"5">>), Token(<<>>, <<"3", "0">>)>>,
      <<Token(<<"z">>, <<>>), Token(<<"y">>, <<>>), Token(<<"x">>, <<>>)>>,
      <<Token(<<"0x80">>, <<"1">>), Token(<<"s">>, <<"1">>)>>,
      <<Token(<<"s">>,
              <<"9", "9", "9", "9", "9", "9", "9", "9", "9", "9",
                "9", "9", "9", "9", "9", "9", "9", "9", "9", "9">>)>>,
      <<Token(<<"s">>, <<"1">>),
        Token(<<"h">>,
              <<"9", "9", "9", "9", "9", "9", "9", "9", "9", "9",
                "9", "9", "9", "9", "9", "9", "9", "9", "9", "9">>)>> }

RECURSIVE Written(_)
Written(toks) ==
    IF toks = <<>> THEN <<>>
    ELSE Head(toks).num \o Head(toks).unit \o Written(Tail(toks))

ParserInit ==
    /\ documents = <<>>
    /\ documents_vec = documents
    /\ request_body = [input |-> documents_vec, model |-> TEXT_EMBEDDING_3_SMALL]
    /\ pc = "idle"
    /\ response = NoResponse
    /\ sleep_duration = ZERO
    /\ result = Pending
    /\ trace = <<>>
    /\ tokens \in SeqsUpTo(Tokens, MaxTokens) \cup Examples
    /\ header = Written(tokens)
    /\ ppc = "start"
    /\ parsed = NoneOpt

\* parse_ratelimit_duration(header_value) runs to its end
Parse ==
    /\ ppc = "start"
    /\ parsed' = parse_ratelimit_duration(header)
    /\ ppc' = "done"
    /\ UNCHANGED <<tokens, header>>
    /\ UNCHANGED callVars

ParserNext == Parse

ParserSpec == ParserInit /\ [][ParserNext]_vars

TypeOK ==
    /\ pc \in {"idle", "send", "await", "sleep", "done"}
    /\ ppc \in {"idle", "start", "done"}
    /\ parsed.kind \in {"None", "Some", "Panic"}
    /\ result.kind \in {"Pending", "Ok", "Err", "Panic"}


\* ------------------------------------------------------------------ claims
Last(seq) == seq[Len(seq)]

\* the 200 answer is a success envelope with as many records as documents
MatchingSuccess ==
    /\ response.status = 200
    /\ response.json.kind = "Ok"
    /\ Len(response.json.data) = Len(documents)

\* the call ended on the response it holds: nothing was sent or slept after it
EndedOnResponse ==
    /\ pc = "done"
    /\ Last(trace).ev = "resp"
    /\ Last(trace).status = response.status

\* C1: a 200 success envelope with as many records as documents gives Ok with
\* one entry per input document, the i-th entry holding the i-th document,
\* after any number of 429 retries.
C1_DocumentsInInputOrder ==
    MatchingSuccess =>
        /\ result.kind = "Ok"
        /\ Len(result.value) = Len(documents)
        /\ \A i \in 1..Len(documents) : result.value[i].document = documents[i]

C1_Witness ==
    /\ MatchingSuccess
    /\ result.kind = "Ok"
    /\ Len(documents) = 2
    /\ documents[1] # documents[2]
    /\ NumEv("sleep") >= 1

C1_WitnessDuplicates ==
    /\ MatchingSuccess
    /\ result.kind = "Ok"
    /\ Len(documents) = 2
    /\ documents[1] = documents[2]

\* the declared indexes of the records are a permutation of 0..n-1
IndexesArePermutation(data) ==
    {data[j].index : j \in 1..Len(data)} = 0..(Len(data) - 1)

\* C2: on a 200 success envelope with matching count, the vector paired with
\* the i-th document is the vector of the record whose index field is i,
\* in whatever order the records arrive.
C2_VectorsFollowIndex ==
    (MatchingSuccess /\ IndexesArePermutation(response.json.data)) =>
        /\ result.kind = "Ok"
        /\ \A i \in 1..Len(documents) : \A j \in 1..Len(response.json.data) :
              response.json.data[j].index = i - 1 =>
                  result.value[i].vec = response.json.data[j].embedding

\* C3: a 200 success envelope whose record count differs from the document
\* count ends the call with ResponseError, without any embedding and without
\* a further request.
C3_MismatchIsResponseError ==
    (/\ response.status = 200
     /\ response.json.kind = "Ok"
     /\ Len(response.json.data) # Len(documents)) =>
        /\ result.kind = "Err"
        /\ result.error = "ResponseError"
        /\ EndedOnResponse

C3_Witness ==
    /\ response.status = 200
    /\ response.json.kind = "Ok"
    /\ Len(response.json.data) > Len(documents)
    /\ Len(documents) > 0
    /\ result.kind = "Err"
    /\ NumEv("sleep") >= 1

C3_WitnessNoRecords ==
    /\ response.status = 200
    /\ response.json.kind = "Ok"
    /\ Len(response.json.data) = 0
    /\ Len(documents) > 0
    /\ result.kind = "Err"

\* the event at i is a 429 whose headers gave a duration
Hinted429(i) ==
    /\ trace[i].ev = "resp"
    /\ trace[i].status = 429
    /\ trace[i].hint.kind = "Some"

\* C4: every 429 that yields a duration d is followed by exactly one sleep of
\* d, the value of that very response, then by exactly one POST; nothing is
\* sent between the 429 and the end of the sleep.
C4_SleepThenOnePost ==
    /\ \A i \in DOMAIN trace : Hinted429(i) =>
          /\ i = Len(trace) =>
                /\ pc = "sleep"
                /\ retry_after(response) = trace[i].hint
                /\ sleep_duration = trace[i].hint.d
          /\ i + 1 <= Len(trace) =>
                /\ trace[i + 1].ev = "sleep"
                /\ trace[i + 1].duration = trace[i].hint.d
          /\ i + 1 = Len(trace) => pc = "send"
          /\ i + 2 <= Len(trace) => trace[i + 2].ev = "post"
          /\ i + 3 <= Len(trace) => trace[i + 3].ev \in {"resp", "fail"}
    /\ pc = "sleep" => Hinted429(Len(trace))

C4_Witness ==
    /\ Len(trace) >= 7
    /\ Hinted429(2)
    /\ Hinted429(5)
    /\ trace[2].hint.d # trace[5].hint.d
    /\ trace[6].ev = "sleep"
    /\ trace[7].ev = "post"

\* every response before the last one is a 429 that gave a duration
OnlyHinted429sBefore(n) ==
    \A i \in 1..(n - 1) : trace[i].ev = "resp" => Hinted429(i)

\* C5: N hinted 429s followed by a well-formed 200 of matching count give Ok
\* after exactly N+1 POSTs and N sleeps; a hinted 429 never ends the call,
\* however many came before it.
C5_HintedRetriesThenOk ==
    /\ (MatchingSuccess /\ OnlyHinted429sBefore(Len(trace))) =>
          /\ result.kind = "Ok"
          /\ pc = "done"
          /\ NumEv("post") = NumEv("resp")
          /\ NumEv("sleep") = NumEv("resp") - 1
    /\ (response.status = 429 /\ retry_after(response).kind = "Some") =>
          /\ pc # "done"
          /\ result = Pending

C5_Witness ==
    /\ MatchingSuccess
    /\ result.kind = "Ok"
    /\ NumEv("post") = MaxPosts
    /\ NumEv("sleep") = MaxPosts - 1

\* the header is absent, or present and parsing to undetermined
Undetermined(h) ==
    ~h.present \/ parse_ratelimit_duration(h.value).kind = "None"
Parseable(h) ==
    h.present /\ parse_ratelimit_duration(h.value).kind = "Some"

NoDuration429 ==
    /\ response.status = 429
    /\ Undetermined(response.reset_requests)
    /\ Undetermined(response.reset_tokens)

\* C6 as stated: a 429 for which neither header yields a duration ends the
\* call, without sleep or further POST, with a rate-limit error of another
\* type than the provider error of the other non-success statuses.
C6_RateLimitErrorOfOwnType ==
    NoDuration429 =>
        /\ EndedOnResponse
        /\ result.kind = "Err"
        /\ result.error \notin {"ProviderError", "HttpError", "ResponseError"}

\* C6 as amended: a 429 for which neither header yields a duration ends the
\* call without sleep or further POST; the error is ProviderError, the
\* variant also used for the other non-success statuses, carrying the
\* rate-limit text and the body, or the transport error when the body cannot
\* be read.
C6_NoDurationEndsCall ==
    NoDuration429 =>
        /\ EndedOnResponse
        /\ result.kind = "Err"
        /\ response.text.ok =>
              /\ result.error = "ProviderError"
              /\ result.message = RateLimitMsg(response.text.text)
        /\ ~response.text.ok => result.error = "HttpError"

C6_Witness ==
    /\ NoDuration429
    /\ response.reset_requests.present
    /\ response.reset_tokens.present
    /\ response.text.ok
    /\ result.kind = "Err"
    /\ result.error = "ProviderError"
    /\ NumEv("post") >= 2

C6_WitnessBothAbsent ==
    /\ NoDuration429
    /\ ~response.reset_requests.present
    /\ ~response.reset_tokens.present
    /\ result.kind = "Err"

\* the call is in, or has just finished, the sleep of d for the 429 it holds
BacksOffFor(d) ==
    /\ sleep_duration = d
    /\ \/ pc = "sleep"
       \/ /\ pc = "send"
          /\ Last(trace).ev = "sleep"
          /\ Last(trace).duration = d

\* C7: on a 429 whose x-ratelimit-reset-requests is present but parses to
\* undetermined while x-ratelimit-reset-tokens is parseable, the call sleeps
\* for the token header's duration and retries.
C7_FallsBackWhenUnparseable ==
    (/\ response.status = 429
     /\ response.reset_requests.present
     /\ Undetermined(response.reset_requests)
     /\ Parseable(response.reset_tokens)) =>
        BacksOffFor(parse_ratelimit_duration(response.reset_tokens.value).d)

\* C8: on a 429 a parseable x-ratelimit-reset-requests decides the sleep
\* whatever x-ratelimit-reset-tokens holds; with the requests header absent a
\* parseable tokens header decides it; the two are never combined.
C8_HeaderPrecedence ==
    response.status = 429 =>
        /\ Parseable(response.reset_requests) =>
              BacksOffFor(parse_ratelimit_duration(response.reset_requests.value).d)
        /\ (~response.reset_requests.present /\ Parseable(response.reset_tokens)) =>
              BacksOffFor(parse_ratelimit_duration(response.reset_tokens.value).d)

C8_Witness ==
    /\ response.status = 429
    /\ Parseable(response.reset_requests)
    /\ Parseable(response.reset_tokens)
    /\ parse_ratelimit_duration(response.reset_requests.value)
           # parse_ratelimit_duration(response.reset_tokens.value)
    /\ pc = "sleep"

C8_WitnessTokensOnly ==
    /\ response.status = 429
    /\ ~response.reset_requests.present
    /\ Parseable(response.reset_tokens)
    /\ pc = "sleep"

OtherStatus == response.status \notin {0, 200, 429}

\* C9 as stated: a status other than 200 and 429 ends the call at once,
\* without sleep or further POST, with a provider error carrying the status
\* and the body text.
C9_OtherStatusIsProviderError ==
    OtherStatus =>
        /\ EndedOnResponse
        /\ result = Err("ProviderError",
                        StatusMsg(response.status, response.text.text))

\* C9 as amended: a status other than 200 and 429 ends the call at once,
\* without sleep or further POST; the error is a provider error carrying the
\* status and the body text when the body can be read, and the transport
\* error of the read when it cannot.
C9_OtherStatusEndsCall ==
    OtherStatus =>
        /\ EndedOnResponse
        /\ response.text.ok =>
              result = Err("ProviderError",
                           StatusMsg(response.status, response.text.text))
        /\ ~response.text.ok =>
              (result.kind = "Err" /\ result.error = "HttpError")

C9_Witness ==
    /\ response.status = 500
    /\ response.text.ok
    /\ result.kind = "Err"
    /\ result.error = "ProviderError"
    /\ result.message.status = 500
    /\ NumEv("sleep") >= 1

C9_WitnessUnreadable ==
    /\ OtherStatus
    /\ ~response.text.ok
    /\ result.kind = "Err"

\* the event at i ends the call: a failed send, or any response other than a
\* 429 that gave a duration
Terminal(i) ==
    \/ trace[i].ev = "fail"
    \/ trace[i].ev = "resp" /\ ~Hinted429(i)

\* C10: every POST but the first directly follows the sleep of a 429 that
\* gave a duration; a failed send, any 200, any other status and a 429
\* without a duration end the call, which never sends again.
C10_OnlyHinted429Retries ==
    /\ \A i \in DOMAIN trace : (trace[i].ev = "post" /\ i > 1) =>
          /\ i >= 4
          /\ trace[i - 1].ev = "sleep"
          /\ Hinted429(i - 2)
          /\ trace[i - 1].duration = trace[i - 2].hint.d
    /\ Len(trace) >= 1 => trace[1].ev = "post"
    /\ \A i \in DOMAIN trace : Terminal(i) => (i = Len(trace) /\ pc = "done")

C10_Witness ==
    /\ NumEv("post") >= 2
    /\ Last(trace).ev = "fail"
    /\ pc = "done"

C10_WitnessUndecodable ==
    /\ NumEv("post") >= 2
    /\ response.status = 200
    /\ response.json.kind = "Undecodable"
    /\ pc = "done"


\* ------------------------------------------------------- claims, parser
KnownUnits == { <<"h">>, <<"m">>, <<"s">>, <<"m", "s">> }
IsDigitText(text) == text # <<>> /\ \A i \in 1..Len(text) : text[i] \in Digits

\* a token <n><unit>: an integer n in decimal digits, a unit of h, m, s, ms,
\* and a value the Duration can hold
ValidToken(tok) ==
    /\ IsDigitText(tok.num)
    /\ tok.unit \in KnownUnits
    /\ Len(StripZeros(tok.num)) <= 6

\* n times the multiplier of the unit
TokenValue(tok) ==
    LET n == DigitsValue(tok.num)
    IN  CASE tok.unit = <<"h">>      -> Dur(n * 3600, 0)
          [] tok.unit = <<"m">>      -> Dur(n * 60, 0)
          [] tok.unit = <<"s">>      -> Dur(n, 0)
          [] tok.unit = <<"m", "s">> -> Dur(n \div 1000, (n % 1000) * 1000000)

RECURSIVE SumOf(_)
SumOf(toks) ==
    IF toks = <<>> THEN ZERO ELSE DurAdd(TokenValue(Head(toks)), SumOf(Tail(toks)))

AllValid(toks) == \A i \in 1..Len(toks) : ValidToken(toks[i])

\* the sum as the parser reports it: undetermined when it is zero
Reported(total) == IF total = ZERO THEN NoneOpt ELSE Some(total)

Without(toks, k) == SubSeq(toks, 1, k - 1) \o SubSeq(toks, k + 1, Len(toks))

\* C11: "<n>h", "<n>m", "<n>s", "<n>ms" give n*3600 s, n*60 s, n s and n ms,
\* and undetermined when n is 0, with any number of leading zeros.
C11_SingleToken ==
    (ppc = "done" /\ Len(tokens) = 1 /\ ValidToken(tokens[1])) =>
        parsed = IF DigitsValue(tokens[1].num) = 0
                 THEN NoneOpt
                 ELSE Some(TokenValue(tokens[1]))

C11_Witness ==
    /\ ppc = "done"
    /\ tokens = <<Token(<<"m">>, <<"1", "0">>)>>
    /\ parsed = Some(Dur(600, 0))

C11_WitnessZero ==
    /\ ppc = "done"
    /\ tokens = <<Token(<<"h">>, <<"0", "0">>)>>
    /\ parsed = NoneOpt

\* C12: a number with a fractional part is read as that real number:
\* "<a>.<b><unit>" gives (a + 0.b) times the multiplier of the unit.
C12_FractionKept ==
    (/\ ppc = "done"
     /\ Len(tokens) = 1
     /\ tokens[1].unit \in KnownUnits
     /\ \E p \in 2..(Len(tokens[1].num) - 1) :
           /\ tokens[1].num[p] = "."
           /\ IsDigitText(SubSeq(tokens[1].num, 1, p - 1))
           /\ IsDigitText(SubSeq(tokens[1].num, p + 1, Len(tokens[1].num)))) =>
        parsed = from_secs_f64(ParseF64(tokens[1].num),
                               IF tokens[1].unit = <<"m", "s">>
                               THEN "ms" ELSE tokens[1].unit[1])

\* C13: a concatenation of tokens <n><unit>, one n at least above 0, gives
\* the sum of n times the multiplier over the tokens; m directly before s is
\* the unit ms, m before a digit or the end is minutes.
C13_SumOfTokens ==
    (/\ ppc = "done"
     /\ Len(tokens) >= 1
     /\ AllValid(tokens)
     /\ \E i \in 1..Len(tokens) : DigitsValue(tokens[i].num) > 0) =>
        parsed = Some(SumOf(tokens))

C13_Witness ==
    /\ ppc = "done"
    /\ tokens = <<Token(<<"h">>, <<"1">>), Token(<<"m">>, <<"2">>),
                  Token(<<"s">>, <<"3">>)>>
    /\ parsed = Some(Dur(3723, 0))

C13_WitnessMillis ==
    /\ ppc = "done"
    /\ tokens = <<Token(<<"m">>, <<"3">>), Token(<<"m", "s">>, <<"1", "0">>)>>
    /\ parsed = Some(Dur(180, 10000000))

\* a token whose unit is a letter other than h, m, s
Malformed(tok) == tok.unit = <<"q">>

\* C14: a token with an unknown unit letter, at the start, in the middle or at
\* the end of valid tokens, adds nothing: the result is that of the same
\* input without the token, the sum of the valid tokens.
C14_UnknownUnitSkipped ==
    ppc = "done" =>
        \A k \in 1..Len(tokens) :
            (Malformed(tokens[k]) /\ AllValid(Without(tokens, k))) =>
                /\ parsed = parse_ratelimit_duration(Written(Without(tokens, k)))
                /\ parsed = Reported(SumOf(Without(tokens, k)))

C14_Witness ==
    /\ ppc = "done"
    /\ tokens = <<Token(<<"h">>, <<"3">>), Token(<<"q">>, <<"5">>),
                  Token(<<"s">>, <<"1", "0">>)>>
    /\ parsed = Some(Dur(10810, 0))

C14_WitnessStart ==
    /\ ppc = "done"
    /\ tokens = <<Token(<<"q">>, <<"1", "0">>), Token(<<"s">>, <<"3">>)>>
    /\ parsed = Some(Dur(3, 0))

C14_WitnessEnd ==
    /\ ppc = "done"
    /\ tokens = <<Token(<<"s">>, <<"3">>), Token(<<"q">>, <<"1", "0">>)>>
    /\ parsed = Some(Dur(3, 0))

\* C15: a returned value is undetermined or a duration above zero, never a
\* zero duration; a string without digits, and one whose digits are all 0,
\* give undetermined.
C15_NeverZero ==
    ppc = "done" =>
        /\ parsed.kind = "Some" =>
              /\ parsed.d # ZERO
              /\ parsed.d.secs >= 0
              /\ parsed.d.nanos >= 0
              /\ parsed.d.secs + parsed.d.nanos > 0
        /\ (\A i \in 1..Len(header) : header[i] \notin (Digits \ {"0"})) =>
              parsed = NoneOpt

C15_Witness ==
    /\ ppc = "done"
    /\ tokens = <<Token(<<"s">>, <<"0">>), Token(<<"m">>, <<"0", "0">>)>>
    /\ parsed = NoneOpt

C15_WitnessNoDigits ==
    /\ ppc = "done"
    /\ header = <<"z", "y", "x">>
    /\ parsed = NoneOpt

\* C16: for every header value the parser returns a duration or undetermined
\* and never panics.
C16_NeverPanics ==
    ppc = "done" => parsed.kind \in {"None", "Some"}

\* C18: digits left at the end of the string without a unit count as seconds
\* and are added to the total: "<n>" gives n s, "<tokens><n>" gives the sum
\* of the tokens plus n s, for n above 0.
C18_TrailingNumberIsSeconds ==
    (/\ ppc = "done"
     /\ Len(tokens) >= 1
     /\ AllValid(SubSeq(tokens, 1, Len(tokens) - 1))
     /\ Last(tokens).unit = <<>>
     /\ IsDigitText(Last(tokens).num)
     /\ Len(StripZeros(Last(tokens).num)) <= 6
     /\ DigitsValue(Last(tokens).num) > 0) =>
        parsed = Some(DurAdd(SumOf(SubSeq(tokens, 1, Len(tokens) - 1)),
                             Dur(DigitsValue(Last(tokens).num), 0)))

C18_Witness ==
    /\ ppc = "done"
    /\ tokens = <<Token(<<"m">>, <<"5">>), Token(<<>>, <<"3", "0">>)>>
    /\ parsed = Some(Dur(330, 0))

C18_WitnessAlone ==
    /\ ppc = "done"
    /\ tokens = <<Token(<<>>, <<"1", "0">>)>>
    /\ parsed = Some(Dur(10, 0))

\* C19: when the text before a known unit is no real number, as a lone
\* decimal point, the parse gives undetermined there, whatever was summed
\* before it and whatever follows.
C19_BadNumberFailsParse ==
    ppc = "done" =>
        \A k \in 1..Len(tokens) :
            (/\ tokens[k].num = <<".">>
             /\ tokens[k].unit \in KnownUnits
             /\ AllValid(SubSeq(tokens, 1, k - 1))) =>
                parsed = NoneOpt

\* ------------------------------------------------- claims, the call again
\* C17: every POST of one call carries the same body, the model and the
\* documents of the call in their order, and the documents paired with the
\* vectors at the end are those collected at the start.
C17_RequestBodyUnchanged ==
    /\ documents_vec = documents
    /\ request_body = [input |-> documents, model |-> TEXT_EMBEDDING_3_SMALL]
    /\ \A i \in DOMAIN trace : trace[i].ev = "post" =>
          /\ trace[i].body = request_body
          /\ trace[i].body.input = documents
          /\ trace[i].body.model = TEXT_EMBEDDING_3_SMALL
    /\ result.kind = "Ok" =>
          \A i \in 1..Len(result.value) : result.value[i].document = documents[i]

C17_Witness ==
    /\ NumEv("post") = MaxPosts
    /\ NumEv("sleep") = MaxPosts - 1
    /\ Len(documents) = 2
    /\ documents[1] # documents[2]
    /\ Last(trace).ev = "post"

\* the body of an error response could not be read
UnreadableErrorBody ==
    /\ ~response.text.ok
    /\ \/ OtherStatus
       \/ response.status = 429 /\ retry_after(response).kind = "None"

\* C20: when the body cannot be read on an error path, a 429 without a
\* duration or a status other than 200 and 429, the call ends without retry
\* with the transport error of the read: neither the status nor the
\* rate-limit text is in the error.
C20_UnreadableBodyIsTransportError ==
    UnreadableErrorBody =>
        /\ EndedOnResponse
        /\ result = Err("HttpError", NoMsg)

C20_Witness ==
    /\ UnreadableErrorBody
    /\ response.status = 429
    /\ result = Err("HttpError", NoMsg)
    /\ NumEv("post") >= 2

C20_WitnessOtherStatus ==
    /\ UnreadableErrorBody
    /\ response.status = 500
    /\ result = Err("HttpError", NoMsg)

=============================================================================
